---------------------------- MODULE Spec2Model ----------------------------
(***************************************************************************)
(* Model of the Google fingerspelling n-gram index                         *)
(* (myosuite/data/google_fingerspelling.py, GoogleFingerspellingLoader)    *)
(* and of the memoised parquet reader of fingerspell_stats.py.             *)
(*                                                                         *)
(* A Python string is a sequence of characters; a character is a one       *)
(* character TLA+ string.  The null character '\0' is written Null.        *)
(* A Python dict is a function whose DOMAIN is the set of its keys, a      *)
(* Python list a sequence, a Python tuple a record or a tuple.             *)
(*                                                                         *)
(* Four specifications share the variables:                                *)
(*   Spec       GoogleFingerspellingLoader.__init__: get_4_grams, then     *)
(*              get_char_product, then get_valid_filenames_per_ngram, one  *)
(*              step per element of its innermost loop;                    *)
(*   SpecGrams  get_4_grams applied to any corpus of bounded lines;        *)
(*   SpecPrune  get_char_product applied twice, to any character set and   *)
(*              any bounded dictionary;                                    *)
(*   SpecCache  any bounded sequence of calc_stats calls.                  *)
(***************************************************************************)
EXTENDS Integers, Sequences, FiniteSets, TLC

VARIABLES
    pc,                       \* position of the modelled program
    \* ---- GoogleFingerspellingLoader.__init__ and its callees
    metadata,                 \* rows (path, sequence_id, phrase) of the csv
    caller_subset,            \* char_subset as the caller passed it
    char_subset,              \* the same set object, which the callee mutates
    dictionary,               \* get_4_grams' result, get_char_product's argument
    possible_chars,           \* get_char_product's result
    row, i, c,                \* loop positions: row, window start, checklist entry
    index_to_filename_count, index_to_filename, filename_to_index,
    index_to_sequence_count, index_to_sequence, sequence_to_index,
    result_dict,
    \* ---- get_4_grams alone
    corpus, four_grams, line_adds,
    \* ---- get_char_product applied to its own result
    pruned_again,
    \* ---- calc_stats
    curr_parquet_filepath, curr_parquet, loads, requests, outcome

loaderVars == <<metadata, caller_subset, char_subset, dictionary, possible_chars,
                row, i, c,
                index_to_filename_count, index_to_filename, filename_to_index,
                index_to_sequence_count, index_to_sequence, sequence_to_index,
                result_dict>>
tableVars == <<index_to_filename_count, index_to_filename, filename_to_index,
               index_to_sequence_count, index_to_sequence, sequence_to_index,
               result_dict>>
gramVars == <<corpus, four_grams, line_adds>>
cacheVars == <<curr_parquet_filepath, curr_parquet, loads, requests, outcome>>
vars == <<pc, loaderVars, gramVars, pruned_again, cacheVars>>

-----------------------------------------------------------------------------
(* Characters and strings *)

Null == "NUL"
Space == " "

\* A one character Python string.
Str(ch) == <<ch>>

Min(a, b) == IF a < b THEN a ELSE b
Max(a, b) == IF a > b THEN a ELSE b

\* Python's s[a:b] for 0 <= a <= b: the characters a .. b-1 that exist.
Slice(s, a, b) == SubSeq(s, a + 1, Min(b, Len(s)))

\* Python's range(n) as the sequence 0, 1, .., n-1 (empty when n <= 0).
Range(n) == [k \in 1..Max(n, 0) |-> k - 1]

SeqToSet(s) == {s[k] : k \in DOMAIN s}

RECURSIVE Sum(_)
Sum(s) == IF s = <<>> THEN 0 ELSE Head(s) + Sum(Tail(s))

RECURSIVE Flatten(_)
Flatten(ss) == IF ss = <<>> THEN <<>> ELSE Head(ss) \o Flatten(Tail(ss))

-----------------------------------------------------------------------------
(* get_4_grams *)

\* possible_grams with range(len(line) - 4): the last window is lost.
possible_grams_short(line) ==
    LET r == Range(Len(line) - 4)
        kept == SelectSeq(r, LAMBDA k : Len(line) >= 4)
    IN  [n \in DOMAIN kept |-> Slice(line, kept[n], kept[n] + 4)]

\* [line[i:i+4] for i in range(len(line) - 3) if len(line) >= 4]
possible_grams(line) ==
    LET r == Range(Len(line) - 3)
        kept == SelectSeq(r, LAMBDA k : Len(line) >= 4)
    IN  [n \in DOMAIN kept |-> Slice(line, kept[n], kept[n] + 4)]

\* The four add() calls made for one possible_gram, in order.
gram_adds(possible_gram) ==
    << possible_gram,
       Str(Null) \o Slice(possible_gram, 1, Len(possible_gram)),
       Slice(possible_gram, 0, 3) \o Str(Null),
       Str(Null) \o Slice(possible_gram, 1, 3) \o Str(Null) >>

\* Every add() call made for one line, in order.
line_add_calls(line) ==
    LET grams == possible_grams(line)
    IN  Flatten([n \in DOMAIN grams |-> gram_adds(grams[n])])

\* four_grams is a set: add() of a member changes nothing.
get_4_grams(lines) ==
    SeqToSet(Flatten([n \in DOMAIN lines |-> line_add_calls(lines[n])]))

-----------------------------------------------------------------------------
(* get_char_product *)

\* add_required without the space.
add_required_null_only(subset) == subset \cup {Str(Null)}

\* char_subset.add('\0'); char_subset.add(' ')
add_required(subset) == (subset \cup {Str(Null)}) \cup {Str(Space)}

\* set(map(''.join, product(char_subset, repeat=4)))
char_product(subset) ==
    { t[1] \o t[2] \o t[3] \o t[4] : t \in [1..4 -> subset] }

\* get_char_product returning the product without pruning it.
get_char_product_unpruned(subset, dict) == char_product(add_required(subset))

\* get_char_product with difference() where intersection() belongs.
get_char_product_difference(subset, dict) ==
    char_product(add_required(subset)) \ dict

\* possible_chars.intersection(dictionary), char_subset being the set as mutated
get_char_product(subset, dict) == char_product(add_required(subset)) \cap dict

-----------------------------------------------------------------------------
(* get_valid_filenames_per_ngram *)

\* [possible_gram, '\0' + possible_gram[1:], possible_gram[:3] + '\0',
\*  '\0' + possible_gram[1:3] + '\0']
checklist(possible_gram) ==
    << possible_gram,
       Str(Null) \o Slice(possible_gram, 1, Len(possible_gram)),
       Slice(possible_gram, 0, 3) \o Str(Null),
       Str(Null) \o Slice(possible_gram, 1, 3) \o Str(Null) >>

\* intern without its membership test: every call takes a new index.
intern_always(table, value) ==
    [count    |-> table.count + 1,
     index_to |-> table.index_to @@ (table.count :> value),
     to_index |-> [v \in (DOMAIN table.to_index) \cup {value} |->
                     IF v = value THEN table.count ELSE table.to_index[v]]]

\* if value not in to_index: index_to[count] = value; to_index[value] = count;
\* count += 1.  One table as the record of its counter and its two dicts.
intern(table, value) ==
    IF value \notin DOMAIN table.to_index
    THEN [count    |-> table.count + 1,
          index_to |-> table.index_to @@ (table.count :> value),
          to_index |-> table.to_index @@ (value :> table.count)]
    ELSE table

\* add_record that assigns a fresh list on every call.
add_record_overwrite(dict, check, rec) ==
    [k \in (DOMAIN dict) \cup {check} |-> IF k = check THEN <<rec>> ELSE dict[k]]

\* if check not in result_dict: result_dict[check] = [rec]
\* else: result_dict[check].append(rec)
add_record(dict, check, rec) ==
    IF check \notin DOMAIN dict
    THEN dict @@ (check :> <<rec>>)
    ELSE [dict EXCEPT ![check] = Append(@, rec)]

\* occurrence storing the window's length where the phrase's belongs.
occurrence_window_len(files, seqs, df_path, seq_id, start_pos, end_pos, phrase) ==
    << files.to_index[df_path], seqs.to_index[seq_id], start_pos, end_pos,
       end_pos - start_pos >>

\* (filename_to_index[df_path], sequence_to_index[seq_id], start_pos, end_pos,
\*  len(phrase))
occurrence(files, seqs, df_path, seq_id, start_pos, end_pos, phrase) ==
    << files.to_index[df_path], seqs.to_index[seq_id], start_pos, end_pos,
       Len(phrase) >>

-----------------------------------------------------------------------------
(* Inputs *)

\* The phrases a metadata row may hold: one too short for any window, the
\* phrase of the documented example, phrases with two windows (equal and
\* different), one whose second window repeats another phrase's first, and
\* one with a space.
Phrases ==
    { <<"c", "a", "t">>,
      <<"c", "a", "t", "s">>,
      <<"s", "c", "a", "t", "s">>,
      <<"a", "a", "a", "a", "a">>,
      <<"a", "t", " ", "a">> }
Paths == {"catfile.parquet", "dogfile.parquet"}
SeqIds == {1, 2}
\* The character sets a caller passes: none, two letters, all four letters.
Subsets ==
    { {},
      {Str("a"), Str("t")},
      {Str("c"), Str("a"), Str("t"), Str("s")} }
MaxRows == 2

Rows == [path : Paths, sequence_id : SeqIds, phrase : Phrases]
SeqsUpTo(S, n) == UNION {[1..k -> S] : k \in 0..n}

-----------------------------------------------------------------------------
(* Values of the variables a specification does not use *)

LoaderIdle ==
    /\ metadata = <<>> /\ caller_subset = {} /\ char_subset = {}
    /\ dictionary = {} /\ possible_chars = {}
    /\ row = 0 /\ i = 0 /\ c = 0
    /\ index_to_filename_count = 0 /\ index_to_filename = <<>>
    /\ filename_to_index = <<>>
    /\ index_to_sequence_count = 0 /\ index_to_sequence = <<>>
    /\ sequence_to_index = <<>>
    /\ result_dict = <<>>
GramsIdle == corpus = <<>> /\ four_grams = {} /\ line_adds = <<>>
PruneIdle == pruned_again = {}
None == "None"
CacheIdle ==
    /\ curr_parquet_filepath = None /\ curr_parquet = None
    /\ loads = 0 /\ requests = <<>> /\ outcome = None

-----------------------------------------------------------------------------
(* Spec: GoogleFingerspellingLoader.__init__ *)

\* __init__ also stores parent_folder and max_interp_frames; no statement of
\* the class reads either, so they are no part of the state.  The phrases are
\* str already, so astype(str) leaves them as they are.

Init ==
    /\ pc = "init"
    /\ metadata \in SeqsUpTo(Rows, MaxRows)
    /\ caller_subset \in Subsets
    /\ char_subset = caller_subset
    /\ dictionary = {} /\ possible_chars = {}
    /\ row = 0 /\ i = 0 /\ c = 0
    /\ index_to_filename_count = 0 /\ index_to_filename = <<>>
    /\ filename_to_index = <<>>
    /\ index_to_sequence_count = 0 /\ index_to_sequence = <<>>
    /\ sequence_to_index = <<>>
    /\ result_dict = <<>>
    /\ GramsIdle /\ PruneIdle /\ CacheIdle

\* self.get_4_grams(list(self.metadata['phrase'].astype(str)))
CallGet4Grams ==
    /\ pc = "init"
    /\ dictionary' = get_4_grams([n \in DOMAIN metadata |-> metadata[n].phrase])
    /\ pc' = "grams"
    /\ UNCHANGED <<metadata, caller_subset, char_subset, possible_chars,
                   row, i, c, tableVars, gramVars, pruned_again, cacheVars>>

\* self.possible_chars = self.get_char_product(self.char_subset, ...)
CallGetCharProduct ==
    /\ pc = "grams"
    /\ char_subset' = add_required(char_subset)
    /\ possible_chars' = get_char_product(char_subset, dictionary)
    /\ pc' = "scan"
    /\ row' = 1 /\ i' = 0 /\ c' = 1
    /\ UNCHANGED <<metadata, caller_subset, dictionary, tableVars, gramVars,
                   pruned_again, cacheVars>>

files_table == [count    |-> index_to_filename_count,
                index_to |-> index_to_filename,
                to_index |-> filename_to_index]
seqs_table == [count    |-> index_to_sequence_count,
               index_to |-> index_to_sequence,
               to_index |-> sequence_to_index]

\* The loops' next position after checklist entry c of window i of row `row`.
Advance ==
    IF c < 4 THEN row' = row /\ i' = i /\ c' = c + 1
    ELSE IF i + 1 < Len(possible_grams(metadata[row].phrase))
         THEN row' = row /\ i' = i + 1 /\ c' = 1
         ELSE row' = row + 1 /\ i' = 0 /\ c' = 1

InScan == pc = "scan" /\ row \in DOMAIN metadata
Grams == possible_grams(metadata[row].phrase)
Check == checklist(Grams[i + 1])[c]

\* A row whose phrase has no window: the inner loops do not run.
ScanShortRow ==
    /\ InScan /\ Grams = <<>>
    /\ row' = row + 1 /\ i' = 0 /\ c' = 1
    /\ UNCHANGED <<pc, metadata, caller_subset, char_subset, dictionary,
                   possible_chars, tableVars, gramVars, pruned_again, cacheVars>>

\* One checklist entry that is in possible_chars.
ScanHit ==
    /\ InScan /\ Grams # <<>>
    /\ Check \in possible_chars
    /\ LET r == metadata[row]
           files == intern(files_table, r.path)
           seqs == intern(seqs_table, r.sequence_id)
       IN  /\ index_to_filename_count' = files.count
           /\ index_to_filename' = files.index_to
           /\ filename_to_index' = files.to_index
           /\ index_to_sequence_count' = seqs.count
           /\ index_to_sequence' = seqs.index_to
           /\ sequence_to_index' = seqs.to_index
           /\ result_dict' = add_record(result_dict, Check,
                   occurrence(files, seqs, r.path, r.sequence_id, i, i + 4,
                              r.phrase))
    /\ Advance
    /\ UNCHANGED <<pc, metadata, caller_subset, char_subset, dictionary,
                   possible_chars, gramVars, pruned_again, cacheVars>>

\* One checklist entry that is not in possible_chars.
ScanMiss ==
    /\ InScan /\ Grams # <<>>
    /\ Check \notin possible_chars
    /\ Advance
    /\ UNCHANGED <<pc, metadata, caller_subset, char_subset, dictionary,
                   possible_chars, tableVars, gramVars, pruned_again, cacheVars>>

\* return result_dict, index_to_filename, index_to_sequence
ScanReturn ==
    /\ pc = "scan" /\ row = Len(metadata) + 1
    /\ pc' = "done"
    /\ UNCHANGED <<loaderVars, gramVars, pruned_again, cacheVars>>

Next ==
    \/ CallGet4Grams
    \/ CallGetCharProduct
    \/ ScanShortRow
    \/ ScanHit
    \/ ScanMiss
    \/ ScanReturn

Spec == Init /\ [][Next]_vars

-----------------------------------------------------------------------------
(* SpecGrams: get_4_grams on its own *)

GramAlphabet == {"a", "b"}
MaxLineLen == 5
MaxLines == 2
MaxCorpusChars == 9

Lines == SeqsUpTo(GramAlphabet, MaxLineLen)

InitGrams ==
    /\ pc = "init"
    /\ \E k \in 0..MaxLines : corpus \in [1..k -> Lines]
    /\ Sum([n \in DOMAIN corpus |-> Len(corpus[n])]) <= MaxCorpusChars
    /\ four_grams = {} /\ line_adds = <<>>
    /\ LoaderIdle /\ PruneIdle /\ CacheIdle

\* get_4_grams(corpus); line_adds[n] counts the add() calls made for line n.
Get4Grams ==
    /\ pc = "init"
    /\ four_grams' = get_4_grams(corpus)
    /\ line_adds' = [n \in DOMAIN corpus |-> Len(line_add_calls(corpus[n]))]
    /\ pc' = "done"
    /\ UNCHANGED <<corpus, loaderVars, pruned_again, cacheVars>>

NextGrams == Get4Grams

SpecGrams == InitGrams /\ [][NextGrams]_vars

-----------------------------------------------------------------------------
(* SpecPrune: get_char_product applied to any dictionary, then to its result *)

PruneChars == <<"a", Space, Null>>
\* The strings of four characters over PruneChars, numbered in base 3, and
\* two strings of other lengths.
NumKeys == 3 ^ 4 + 2
PruneKey(n) ==
    IF n = 81 THEN <<"a", "a", "a">>
    ELSE IF n = 82 THEN <<"a", "a", "a", "a", "a">>
    ELSE [k \in 1..4 |-> PruneChars[((n \div (3 ^ (k - 1))) % 3) + 1]]
MaxDictSize == 2

InitPrune ==
    /\ pc = "init"
    /\ caller_subset \in SUBSET {Str(PruneChars[k]) : k \in 1..3}
    /\ char_subset = caller_subset
    /\ \E size \in 0..MaxDictSize :
          \E f \in [1..size -> 0..(NumKeys - 1)] :
             /\ \A k \in 1..(size - 1) : f[k] < f[k + 1]
             /\ dictionary = { PruneKey(f[k]) : k \in 1..size }
    /\ possible_chars = {} /\ pruned_again = {}
    /\ metadata = <<>> /\ row = 0 /\ i = 0 /\ c = 0
    /\ index_to_filename_count = 0 /\ index_to_filename = <<>>
    /\ filename_to_index = <<>>
    /\ index_to_sequence_count = 0 /\ index_to_sequence = <<>>
    /\ sequence_to_index = <<>>
    /\ result_dict = <<>>
    /\ GramsIdle /\ CacheIdle

\* first = get_char_product(char_subset, dictionary)
PruneFirst ==
    /\ pc = "init"
    /\ char_subset' = add_required(char_subset)
    /\ possible_chars' = get_char_product(char_subset, dictionary)
    /\ pc' = "pruned"
    /\ UNCHANGED <<metadata, caller_subset, dictionary, row, i, c, tableVars,
                   gramVars, pruned_again, cacheVars>>

\* get_char_product(char_subset, first), char_subset being the set the
\* first call mutated
PruneSecond ==
    /\ pc = "pruned"
    /\ char_subset' = add_required(char_subset)
    /\ pruned_again' = get_char_product(char_subset, possible_chars)
    /\ pc' = "done"
    /\ UNCHANGED <<metadata, caller_subset, dictionary, possible_chars,
                   row, i, c, tableVars, gramVars, cacheVars>>

NextPrune == PruneFirst \/ PruneSecond

SpecPrune == InitPrune /\ [][NextPrune]_vars

-----------------------------------------------------------------------------
(* SpecCache: calc_stats and its module-level cache *)

Files == {"a.parquet", "b.parquet", "c.parquet"}
MaxRequests == 4

\* pd.read_parquet(dataset_path / parquet_filepath), when it returns: the
\* table stored in that file.
read_parquet(parquet_filepath) == "table of " \o parquet_filepath

\* `if` with only its first test: a cached table is never replaced.
cache_miss_first_only(cached_filepath, parquet_filepath) ==
    cached_filepath = None

\* curr_parquet_filepath is None or parquet_filepath != curr_parquet_filepath
cache_miss(cached_filepath, parquet_filepath) ==
    cached_filepath = None \/ parquet_filepath # cached_filepath

\* parquet_data.loc[[sample_index]] and the return: the row's statistics,
\* taken from `table`, or the KeyError of an index the table lacks; with no
\* table at all, the AttributeError of None.loc.
Outcomes(table) ==
    IF table = None THEN {"AttributeError"}
    ELSE {"stats from " \o table, "KeyError"}

InitCache ==
    /\ pc = "init"
    /\ curr_parquet_filepath = None /\ curr_parquet = None
    /\ loads = 0 /\ requests = <<>> /\ outcome = None
    /\ LoaderIdle /\ GramsIdle /\ PruneIdle

\* calc_stats for a row of the cached file: nothing is read.
CalcStatsCached ==
    \E parquet_filepath \in Files :
        /\ Len(requests) < MaxRequests
        /\ ~ cache_miss(curr_parquet_filepath, parquet_filepath)
        /\ requests' = Append(requests, parquet_filepath)
        /\ outcome' \in Outcomes(curr_parquet)
        /\ UNCHANGED <<pc, curr_parquet_filepath, curr_parquet, loads,
                       loaderVars, gramVars, pruned_again>>

\* calc_stats for a row of another file, read_parquet returning.
CalcStatsLoad ==
    \E parquet_filepath \in Files :
        /\ Len(requests) < MaxRequests
        /\ cache_miss(curr_parquet_filepath, parquet_filepath)
        /\ requests' = Append(requests, parquet_filepath)
        /\ curr_parquet_filepath' = parquet_filepath
        /\ loads' = loads + 1
        /\ curr_parquet' = read_parquet(parquet_filepath)
        /\ outcome' \in Outcomes(curr_parquet')
        /\ UNCHANGED <<pc, loaderVars, gramVars, pruned_again>>

\* calc_stats for a row of another file, read_parquet raising: the filename
\* is assigned before the read, the table after it.
CalcStatsLoadRaises ==
    \E parquet_filepath \in Files :
        /\ Len(requests) < MaxRequests
        /\ cache_miss(curr_parquet_filepath, parquet_filepath)
        /\ requests' = Append(requests, parquet_filepath)
        /\ curr_parquet_filepath' = parquet_filepath
        /\ loads' = loads + 1
        /\ outcome' = "read_parquet raised"
        /\ UNCHANGED <<pc, curr_parquet, loaderVars, gramVars, pruned_again>>

NextCache == CalcStatsCached \/ CalcStatsLoad \/ CalcStatsLoadRaises

SpecCache == InitCache /\ [][NextCache]_vars

-----------------------------------------------------------------------------
(* What the claims speak of, stated without the code's slicing *)

\* The four characters of phrase that start at the 0-based position s.
WindowAt(phrase, s) == [k \in 1..4 |-> phrase[s + k]]

\* Variant 1 is the window itself, 2 has its first character replaced by the
\* null sentinel, 3 its last, 4 both.
VariantOf(w, j) ==
    [k \in 1..4 |-> IF (k = 1 /\ j \in {2, 4}) \/ (k = 4 /\ j \in {3, 4})
                    THEN Null ELSE w[k]]

WindowStarts(phrase) == 0..(Len(phrase) - 4)

\* C2: get_4_grams returns exactly the four variants of every window
\* phrase[s:s+4], 0 <= s <= len(phrase)-4, of every phrase of the corpus; a
\* phrase shorter than 4 makes no add() call and a phrase of length L >= 4
\* makes exactly 4*(L-3), so the result has at most that many members.
C2_FourGramsExact ==
    pc = "done" =>
        /\ four_grams = { VariantOf(WindowAt(corpus[n], s), j) :
                            <<n, s, j>> \in { t \in (DOMAIN corpus) \X (0..MaxLineLen) \X (1..4) :
                                              t[2] \in WindowStarts(corpus[t[1]]) } }
        /\ \A n \in DOMAIN corpus :
              line_adds[n] = IF Len(corpus[n]) < 4 THEN 0
                             ELSE 4 * (Len(corpus[n]) - 3)
        /\ Cardinality(four_grams) <= Sum(line_adds)

\* A corpus with a short line and a line of two windows, whose variants
\* partly coincide.
C2_Witness ==
    /\ pc = "done"
    /\ \E n \in DOMAIN corpus : Len(corpus[n]) = 3
    /\ \E n \in DOMAIN corpus : Len(corpus[n]) = 5 /\ line_adds[n] = 8
    /\ Cardinality(four_grams) < Sum(line_adds)
    /\ Cardinality(four_grams) > 4

-----------------------------------------------------------------------------
(* Claims about __init__ (Spec) *)

PathCol == [r \in DOMAIN metadata |-> metadata[r].path]
SeqCol == [r \in DOMAIN metadata |-> metadata[r].sequence_id]

\* Checklist entry j of window s of row r has been scanned.
Before(r, s, j) ==
    \/ r < row
    \/ r = row /\ s < i
    \/ r = row /\ s = i /\ j < c

KeyAt(r, s, j) == VariantOf(WindowAt(metadata[r].phrase, s), j)

\* The rows for which some scanned checklist entry was a valid key.
HitRows ==
    { r \in DOMAIN metadata :
        \E s \in WindowStarts(metadata[r].phrase), j \in 1..4 :
            Before(r, s, j) /\ KeyAt(r, s, j) \in possible_chars }

SeenValues(col) == { col[r] : r \in HitRows }
\* The first of the rows in `hits` that holds value v in column col.
FirstRow(hits, col, v) ==
    CHOOSE r \in hits : col[r] = v /\ \A q \in hits : col[q] = v => r <= q
\* The number of values first seen before v.
FirstSeenIndexIn(hits, col, v) ==
    Cardinality({ col[q] : q \in { h \in hits : h < FirstRow(hits, col, v) } })
FirstSeenIndex(col, v) == FirstSeenIndexIn(HitRows, col, v)

\* The valid checklist entries scanned so far, in scan order, each with the
\* record it must have appended.
ExpectedHits ==
    LET hits == HitRows
    IN  Flatten([r \in DOMAIN metadata |->
          Flatten([s1 \in 1..Cardinality(WindowStarts(metadata[r].phrase)) |->
            LET s == s1 - 1
                js == SelectSeq(<<1, 2, 3, 4>>,
                        LAMBDA j : /\ Before(r, s, j)
                                   /\ KeyAt(r, s, j) \in possible_chars)
            IN  [n \in DOMAIN js |->
                   [key |-> KeyAt(r, s, js[n]),
                    rec |-> << FirstSeenIndexIn(hits, PathCol, PathCol[r]),
                               FirstSeenIndexIn(hits, SeqCol, SeqCol[r]),
                               s, s + 4, Len(metadata[r].phrase) >>]]])])

\* The records key k must hold, in scan order.
RecordsOf(hits, k) ==
    LET mine == SelectSeq(hits, LAMBDA h : h.key = k)
    IN  [n \in DOMAIN mine |-> mine[n].rec]

\* C1: every record stored under key k spans four positions, carries the
\* length of the phrase of a scanned row with the record's file and sequence,
\* and k is one of the four variants of that row's window at the record's
\* positions; every key of the index is a member of possible_chars.
C1_IndexCompleteness ==
    \A k \in DOMAIN result_dict :
        /\ k \in possible_chars
        /\ \A n \in DOMAIN result_dict[k] :
              LET rec == result_dict[k][n]
              IN  /\ rec[4] - rec[3] = 4
                  /\ \E r \in DOMAIN metadata :
                        /\ r <= row
                        /\ rec[1] \in DOMAIN index_to_filename
                        /\ rec[2] \in DOMAIN index_to_sequence
                        /\ index_to_filename[rec[1]] = metadata[r].path
                        /\ index_to_sequence[rec[2]] = metadata[r].sequence_id
                        /\ rec[5] = Len(metadata[r].phrase)
                        /\ rec[3] \in WindowStarts(metadata[r].phrase)
                        /\ \E j \in 1..4 : k = KeyAt(r, rec[3], j)

\* A sentinel-headed key holding the second window of a five character phrase.
C1_Witness ==
    /\ pc = "done"
    /\ \E k \in DOMAIN result_dict :
          /\ k[1] = Null
          /\ \E n \in DOMAIN result_dict[k] :
                result_dict[k][n][3] = 1 /\ result_dict[k][n][5] = 5

\* C3: the valid key set is the corpus-derived dictionary restricted to the
\* strings of four characters, each from the caller's subset, the null
\* sentinel or the space.
C3_ValidKeySet ==
    pc \in {"scan", "done"} =>
        LET effective == caller_subset \cup {Str(Null), Str(Space)}
        IN  /\ possible_chars =
                 { k \in dictionary :
                     Len(k) = 4 /\ \A n \in 1..4 : Str(k[n]) \in effective }
            /\ \A k \in possible_chars :
                 Len(k) = 4 /\ \A n \in 1..4 : Str(k[n]) \in effective

\* The subset prunes some keys of the dictionary and keeps one with a space,
\* which the caller did not ask for.
C3_Witness ==
    /\ pc = "done"
    /\ possible_chars # dictionary
    /\ Str(Space) \notin caller_subset
    /\ \E k \in possible_chars : \E n \in 1..4 : k[n] = Space

TableConsistent(count, index_to, to_index) ==
    /\ DOMAIN index_to = 0..(count - 1)
    /\ \A n \in DOMAIN index_to :
          index_to[n] \in DOMAIN to_index /\ to_index[index_to[n]] = n
    /\ \A v \in DOMAIN to_index :
          to_index[v] \in DOMAIN index_to /\ index_to[to_index[v]] = v

\* One step of a table: nothing, or one new value at the index `count`.
TableStep(count, index_to, to_index, count2, index_to2, to_index2) ==
    \/ count2 = count /\ index_to2 = index_to /\ to_index2 = to_index
    \/ /\ count2 = count + 1
       /\ \E v \in (DOMAIN to_index2) \ (DOMAIN to_index) :
             /\ DOMAIN to_index2 = (DOMAIN to_index) \cup {v}
             /\ to_index2[v] = count
       /\ \A v \in DOMAIN to_index : to_index2[v] = to_index[v]
       /\ \A n \in DOMAIN index_to :
             n \in DOMAIN index_to2 /\ index_to2[n] = index_to[n]

C4_TablesState ==
    /\ TableConsistent(index_to_filename_count, index_to_filename,
                       filename_to_index)
    /\ TableConsistent(index_to_sequence_count, index_to_sequence,
                       sequence_to_index)
    /\ filename_to_index =
          [v \in SeenValues(PathCol) |-> FirstSeenIndex(PathCol, v)]
    /\ sequence_to_index =
          [v \in SeenValues(SeqCol) |-> FirstSeenIndex(SeqCol, v)]

C4_TablesStep ==
    /\ TableStep(index_to_filename_count, index_to_filename, filename_to_index,
                 index_to_filename_count', index_to_filename',
                 filename_to_index')
    /\ TableStep(index_to_sequence_count, index_to_sequence, sequence_to_index,
                 index_to_sequence_count', index_to_sequence',
                 sequence_to_index')
    /\ (InScan /\ metadata[row].path \in DOMAIN filename_to_index) =>
          UNCHANGED <<index_to_filename_count, index_to_filename,
                      filename_to_index>>
    /\ (InScan /\ metadata[row].sequence_id \in DOMAIN sequence_to_index) =>
          UNCHANGED <<index_to_sequence_count, index_to_sequence,
                      sequence_to_index>>

\* C4: at every point of the scan each table's two maps are mutual inverses
\* over the indices 0..N-1 of its N values, a value's index is the number of
\* values first seen before it (each table reading its own column only), and
\* a step leaves a table alone when its value is already interned, or else
\* adds that one value at the next index.
C4_Interning == [] C4_TablesState /\ [][C4_TablesStep]_vars

\* One file interned once for two sequences.
C4_Witness ==
    /\ pc = "done"
    /\ index_to_filename_count = 1
    /\ index_to_sequence_count = 2
    /\ Cardinality(DOMAIN result_dict) >= 4

\* C9: at every point of the scan every key's list holds exactly one record
\* (file_index, sequence_index, s, s+4, len(phrase)) per scanned checklist
\* entry equal to that key and valid, in scan order, duplicates kept; the
\* single row ("catfile.parquet", 1, "cats") gives "cats" the list
\* [(0, 0, 0, 4, 4)].
C9_CoverageAndOrder ==
    LET hits == ExpectedHits
    IN  /\ DOMAIN result_dict = { hits[n].key : n \in DOMAIN hits }
        /\ \A k \in DOMAIN result_dict : result_dict[k] = RecordsOf(hits, k)
        /\ ( /\ pc = "done"
             /\ metadata = << [path |-> "catfile.parquet", sequence_id |-> 1,
                               phrase |-> <<"c", "a", "t", "s">>] >>
             /\ <<"c", "a", "t", "s">> \in possible_chars )
           => result_dict[<<"c", "a", "t", "s">>] = << <<0, 0, 0, 4, 4>> >>

\* A key holding records of two rows of different files, two per row.
C9_Witness ==
    /\ pc = "done"
    /\ \E k \in DOMAIN result_dict :
          /\ Len(result_dict[k]) = 4
          /\ result_dict[k][1][1] # result_dict[k][4][1]
          /\ result_dict[k][1][3] < result_dict[k][2][3]

\* The documented example's end state.
CatsExample ==
    /\ pc = "done"
    /\ metadata = << [path |-> "catfile.parquet", sequence_id |-> 1,
                      phrase |-> <<"c", "a", "t", "s">>] >>
    /\ <<"c", "a", "t", "s">> \in DOMAIN result_dict

-----------------------------------------------------------------------------
(* Claims about get_char_product (SpecPrune) *)

\* C7: get_char_product applied to its own result, with the character set
\* the first call left behind, returns that result again.
C7_PruneIdempotent == pc = "done" => pruned_again = possible_chars

\* The first call pruned a key away and kept another; the second had the
\* sentinel and the space in its argument already.
C7_Witness ==
    /\ pc = "done"
    /\ possible_chars # {} /\ possible_chars # dictionary
    /\ pruned_again # {}
    /\ caller_subset # char_subset

\* C8: after get_char_product the character set holds the null sentinel and
\* the space whatever the caller passed, and every dictionary key of four
\* characters, each in the caller's subset or one of those two, is in the
\* result.
C8_SentinelAndSpace ==
    pc \in {"pruned", "done"} =>
        /\ Str(Null) \in char_subset /\ Str(Space) \in char_subset
        /\ \A k \in dictionary :
              ( /\ Len(k) = 4
                /\ \A n \in 1..4 :
                      \/ Str(k[n]) \in caller_subset
                      \/ k[n] = Null \/ k[n] = Space )
              => k \in possible_chars

\* The caller passed neither character and a key holding both is kept.
C8_Witness ==
    /\ pc = "pruned"
    /\ Str(Null) \notin caller_subset /\ Str(Space) \notin caller_subset
    /\ \E k \in possible_chars :
          /\ \E n \in 1..4 : k[n] = Null
          /\ \E n \in 1..4 : k[n] = Space
          /\ \E n \in 1..4 : k[n] = "a"

-----------------------------------------------------------------------------
(* Claims about calc_stats (SpecCache) *)

Last(s) == s[Len(s)]

\* The positions of `requests` whose filename differs from the one before.
Switches == { k \in 2..Len(requests) : requests[k] # requests[k - 1] }

C5_LoadCount ==
    requests # <<>> => loads = 1 + Cardinality(Switches)

C5_LoadStep ==
    requests' # requests =>
        IF requests # <<>> /\ Last(requests') = Last(requests)
        THEN loads' = loads /\ curr_parquet' = curr_parquet
        ELSE /\ loads' = loads + 1
             /\ outcome' # "read_parquet raised" =>
                   curr_parquet' = read_parquet(Last(requests'))

C10_CacheSlotConsistent ==
    /\ \/ curr_parquet_filepath = None /\ curr_parquet = None
       \/ /\ curr_parquet_filepath # None
          /\ curr_parquet = read_parquet(curr_parquet_filepath)
    /\ \A f \in Files :
          outcome = "stats from " \o read_parquet(f) => Last(requests) = f

=============================================================================
